---- MODULE Spec2Model ----
(***************************************************************************)
(* Model of the two binary patchers of fex-android-launcher:               *)
(*   scripts/patch_glibc_seccomp.py     (instruction patcher, Spec)        *)
(*   scripts/patch_vortek_socket_path.py (substring patcher, SpecV)        *)
(* A buffer is a sequence of bytes (0..255).  A 32-bit instruction word is *)
(* kept as its two 16-bit halves [hi, lo], so that no value leaves the     *)
(* range of the model checker's integers.                                  *)
(***************************************************************************)
EXTENDS Integers, Sequences, FiniteSets, TLC

VARIABLES
    fs,             \* file system: name -> byte sequence, or Absent
    argv,           \* sys.argv[1:]
    pc,             \* position of the process
    idx,            \* position of main's for loop in argv (1-based)
    data,           \* patch_binary's bytearray / patch_file's data
    original,       \* patch_binary's `original`
    total_patches,  \* patch_binary's counter
    log,            \* the match lines printed by the current patch_binary call
    any_patched,    \* main's flag
    ret,            \* what the last patch_binary call returned
    runs,           \* number of process invocations so far
    pre,            \* history: fs when the current patch_binary call began
    init_fs,        \* history: fs before the first invocation
    visited,        \* history: argv positions main's loop has reached
    written,        \* history: names patch_binary has written patched bytes to
    pats            \* substring patcher: the (old, new) pairs patch_file applies

vars == <<fs, argv, pc, idx, data, original, total_patches, log, any_patched,
          ret, runs, pre, init_fs, visited, written, pats>>

(***************************** bounds **************************************)
MaxWords == 3
MaxGap == 17
MaxRuns == 2
MaxArgs == 2
MaxVLen == 4

(************************** byte-level helpers *****************************)
\* the content of a name that holds no file (no byte is negative)
Absent == <<-1>>

\* python's d[lo:hi] for 0 <= lo <= hi <= len(d)
Slice(d, lo, hi) == SubSeq(d, lo + 1, hi)

\* a plausible slip: the word before the trap is overwritten
Put4_Misplaced(d, off, w) ==
    [i \in 1..Len(d) |-> IF off - 4 < i /\ i <= off THEN w[i - off + 4] ELSE d[i]]

\* python's d[off:off+4] = w for a 4-byte w
Put4(d, off, w) ==
    [i \in 1..Len(d) |-> IF off < i /\ i <= off + 4 THEN w[i - off] ELSE d[i]]

\* struct.pack('<I', insn) of the word with halves hi, lo
pack(insn) ==
    <<insn.lo % 256, insn.lo \div 256, insn.hi % 256, insn.hi \div 256>>

\* struct.unpack('<I', b)[0]
unpack(b) == [hi |-> b[3] + 256 * b[4], lo |-> b[1] + 256 * b[2]]

(***************************** constants ***********************************)
BLOCKED_SYSCALLS == {99, 293}

SVC_0 == <<1, 0, 0, 212>>

\* plausible slips: the trap is rewritten with a word that is still a trap,
\* or with a word the scanner takes for an anchor
MOVN_X0_37_Trap == <<1, 0, 0, 212>>
MOVN_X0_37_Anchor == <<104, 12, 128, 210>>
MOVN_X0_37 == <<160, 4, 128, 146>>

\* plausible slips: the window is one instruction short, or one long
LOOKBACK_Short == 16 - 1
LOOKBACK_Long == 16 + 1
LOOKBACK == 16

BRANCH_OPS == {5, 37, 107}

\* (0b11010010100 << 21) | (imm16 << 5) | 8, for imm16 in 0..65535:
\* the high half is 0xD280 | (imm16 >> 11), the low half (imm16 << 5) | 8.
encode_movz_x8(imm16) ==
    pack([hi |-> 53888 + (imm16 \div 2048), lo |-> ((imm16 * 32) % 65536) + 8])

targets == {encode_movz_x8(nr) : nr \in BLOCKED_SYSCALLS}

TargetNr(b) == CHOOSE nr \in BLOCKED_SYSCALLS : encode_movz_x8(nr) = b

\* (insn & 0xFFE0001F) == 0xD2800008
IsMovzX8(insn) == (insn.hi \div 32) * 32 = 53888 /\ insn.lo % 32 = 8

\* insn >> 26
Top6(insn) == insn.hi \div 1024

IsBranch(insn) == Top6(insn) \in BRANCH_OPS

(************************ patch_binary's scan ******************************)
\* The inner loop: the number of instructions back at which a target load
\* was found, or 0 when the search stopped without one.
RECURSIVE BackSearch(_, _, _)
BackSearch(d, offset, back) ==
    IF back > LOOKBACK THEN 0
    ELSE LET prev_off == offset - back * 4 IN
         IF prev_off < 0 THEN 0
         ELSE LET prev == Slice(d, prev_off, prev_off + 4) IN
              IF prev \in targets THEN back
              ELSE IF IsMovzX8(unpack(prev)) THEN 0
              ELSE IF IsBranch(unpack(prev)) THEN 0
              ELSE BackSearch(d, offset, back + 1)

\* The outer loop from `offset` on: the buffer is rewritten as the loop goes.
RECURSIVE ScanLoop(_, _, _, _)
ScanLoop(d, offset, total, lg) ==
    IF offset >= Len(d) - 3 THEN [data |-> d, total |-> total, log |-> lg]
    ELSE IF Slice(d, offset, offset + 4) = SVC_0
         THEN LET back == BackSearch(d, offset, 1) IN
              IF back > 0
              THEN ScanLoop(Put4(d, offset, MOVN_X0_37), offset + 4, total + 1,
                            Append(lg, [offset |-> offset,
                                        prev_off |-> offset - back * 4,
                                        back |-> back,
                                        nr |-> TargetNr(Slice(d, offset - back * 4,
                                                              offset - back * 4 + 4))]))
              ELSE ScanLoop(d, offset + 4, total, lg)
         ELSE ScanLoop(d, offset + 4, total, lg)

Scan(d) == ScanLoop(d, 4, 0, <<>>)

(*************************** file names ************************************)
ArgPaths == {"a", "b", "a.orig"}
Backup(p) == p \o ".orig"
Names == ArgPaths \cup {Backup(p) : p \in ArgPaths}

(************************ inputs of the model ******************************)
NOP == <<31, 32, 3, 213>>          \* nop
B_0 == <<0, 0, 0, 20>>             \* b   .
BL_0 == <<0, 0, 0, 148>>           \* bl  .
RET_X30 == <<192, 3, 95, 214>>     \* ret
BR_X16 == <<0, 2, 31, 214>>        \* br  x16
MOVZ_X9_99 == <<105, 12, 128, 210>>   \* mov x9, #99
MOVZ_X8_64 == encode_movz_x8(64)      \* mov x8, #64 (not a blocked syscall)

Palette == targets \cup {MOVZ_X8_64, B_0, BL_0, RET_X30, SVC_0, NOP, MOVN_X0_37}
Specials == Palette \cup {BR_X16, MOVZ_X9_99}
Tails == {<<>>, <<1>>, <<1, 0, 0>>}

RECURSIVE Chunks(_)
Chunks(n) == IF n = 0 THEN {<<>>}
             ELSE {w \o s : w \in Palette, s \in Chunks(n - 1)}

RECURSIVE Rep(_, _)
Rep(w, k) == IF k = 0 THEN <<>> ELSE w \o Rep(w, k - 1)

\* every buffer of at most MaxWords palette words, with a few trailing bytes
SmallBuffers == {s \o t : s \in UNION {Chunks(n) : n \in 0..MaxWords}, t \in Tails}

\* anchor, k slots of nop with one slot holding any special word, svc #0
GapBuffers ==
    UNION {{a \o Rep(NOP, j) \o x \o Rep(NOP, k - 1 - j) \o SVC_0 :
                a \in targets, x \in Specials, j \in 0..(k - 1)} : k \in 1..MaxGap}

\* anchor, k slots all holding the same word, svc #0, trailing bytes
UniformBuffers ==
    {a \o Rep(x, k) \o SVC_0 \o t :
         a \in targets, x \in Specials, k \in 0..MaxGap, t \in {<<>>, <<1, 0, 0>>}}

RichBuffers == SmallBuffers \cup GapBuffers \cup UniformBuffers

FewBuffers == {encode_movz_x8(99) \o SVC_0,
               encode_movz_x8(99) \o NOP,
               encode_movz_x8(293) \o NOP \o SVC_0 \o SVC_0 \o <<7>>}

RECURSIVE SeqsUpTo(_, _)
SeqsUpTo(S, n) == IF n = 0 THEN {<<>>}
                  ELSE SeqsUpTo(S, n - 1) \cup
                       {Append(s, x) : s \in SeqsUpTo(S, n - 1), x \in S}

Range(s) == {s[i] : i \in 1..Len(s)}

(****************************** Init ***************************************)
InitCommon ==
    /\ pc = "start"
    /\ idx = 0
    /\ data = <<>>
    /\ original = <<>>
    /\ total_patches = 0
    /\ log = <<>>
    /\ any_patched = FALSE
    /\ ret = "none"
    /\ runs = 1
    /\ pre = fs
    /\ init_fs = fs
    /\ visited = {}
    /\ written = {}

\* one file with any of the rich buffers
InitRich ==
    /\ argv = <<"a">>
    /\ \E c \in RichBuffers : fs = [n \in Names |-> IF n = "a" THEN c ELSE Absent]

\* a batch over a few files, a backup possibly there already
InitBatch ==
    /\ argv \in SeqsUpTo(ArgPaths, MaxArgs)
    /\ \E ca \in FewBuffers \cup {Absent}, cb \in FewBuffers \cup {Absent},
          co \in {Absent, encode_movz_x8(99) \o SVC_0, <<9>>} :
          fs = [n \in Names |-> IF n = "a" THEN ca
                                ELSE IF n = "b" THEN cb
                                ELSE IF n = "a.orig" THEN co
                                ELSE Absent]

Init ==
    /\ InitRich \/ InitBatch
    /\ InitCommon
    /\ pats = <<>>

(********************** patch_glibc_seccomp.py: main ***********************)
\* len(sys.argv) < 2: usage, sys.exit(1)
MainUsage ==
    /\ pc = "start"
    /\ Len(argv) < 1
    /\ pc' = "exit1"
    /\ UNCHANGED <<fs, argv, idx, data, original, total_patches, log, any_patched,
                   ret, runs, pre, init_fs, visited, written, pats>>

MainBegin ==
    /\ pc = "start"
    /\ Len(argv) >= 1
    /\ pc' = "loop"
    /\ idx' = 1
    /\ any_patched' = FALSE
    /\ visited' = {}
    /\ ret' = "none"
    /\ UNCHANGED <<fs, argv, data, original, total_patches, log,
                   runs, pre, init_fs, written, pats>>

\* the loop is over: the summary is printed and the process ends
MainEnd ==
    /\ pc = "loop"
    /\ idx > Len(argv)
    /\ pc' = "done"
    /\ UNCHANGED <<fs, argv, idx, data, original, total_patches, log, any_patched,
                   ret, runs, pre, init_fs, visited, written, pats>>

\* not os.path.isfile(filepath): reported, continue
NotFound ==
    /\ pc = "loop"
    /\ idx <= Len(argv)
    /\ fs[argv[idx]] = Absent
    /\ idx' = idx + 1
    /\ visited' = visited \cup {idx}
    /\ UNCHANGED <<fs, argv, pc, data, original, total_patches, log, any_patched,
                   ret, runs, pre, init_fs, written, pats>>

(****************** patch_glibc_seccomp.py: patch_binary *******************)
\* the file is read and scanned; the buffer is patched in memory
ReadAndScan ==
    /\ pc = "loop"
    /\ idx <= Len(argv)
    /\ fs[argv[idx]] # Absent
    /\ LET r == Scan(fs[argv[idx]]) IN
         /\ original' = fs[argv[idx]]
         /\ data' = r.data
         /\ total_patches' = r.total
         /\ log' = r.log
    /\ pc' = "scanned"
    /\ pre' = fs
    /\ ret' = "none"
    /\ visited' = visited \cup {idx}
    /\ UNCHANGED <<fs, argv, idx, any_patched, runs, init_fs, written, pats>>

\* open(filepath, 'rb') or f.read() raises: nothing catches it
ReadFail ==
    /\ pc = "loop"
    /\ idx <= Len(argv)
    /\ fs[argv[idx]] # Absent
    /\ pc' = "crashed"
    /\ visited' = visited \cup {idx}
    /\ UNCHANGED <<fs, argv, idx, data, original, total_patches, log, any_patched,
                   ret, runs, pre, init_fs, written, pats>>

\* total_patches == 0: return False
ReturnFalse ==
    /\ pc = "scanned"
    /\ total_patches = 0
    /\ ret' = "False"
    /\ idx' = idx + 1
    /\ pc' = "loop"
    /\ UNCHANGED <<fs, argv, data, original, total_patches, log, any_patched,
                   runs, pre, init_fs, visited, written, pats>>

\* a plausible slip: the original is overwritten first and the backup taken after
SaveBackupAfterWrite ==
    /\ pc = "scanned"
    /\ total_patches # 0
    /\ fs' = [fs EXCEPT ![argv[idx]] = data,
                        ![Backup(argv[idx])] =
                            IF @ = Absent THEN data ELSE @]
    /\ pc' = "write"
    /\ UNCHANGED <<argv, idx, data, original, total_patches, log, any_patched,
                   ret, runs, pre, init_fs, visited, written, pats>>

\* a plausible slip: the backup is taken whatever the patch count
SaveBackupAlways ==
    /\ pc = "scanned"
    /\ fs' = [fs EXCEPT ![Backup(argv[idx])] =
                            IF @ = Absent THEN fs[argv[idx]] ELSE @]
    /\ pc' = "write"
    /\ UNCHANGED <<argv, idx, data, original, total_patches, log, any_patched,
                   ret, runs, pre, init_fs, visited, written, pats>>

\* if not os.path.exists(backup): shutil.copy2(filepath, backup)
SaveBackup ==
    /\ pc = "scanned"
    /\ total_patches # 0
    /\ fs' = [fs EXCEPT ![Backup(argv[idx])] =
                            IF @ = Absent THEN fs[argv[idx]] ELSE @]
    /\ pc' = "write"
    /\ UNCHANGED <<argv, idx, data, original, total_patches, log, any_patched,
                   ret, runs, pre, init_fs, visited, written, pats>>

\* shutil.copy2 raises: nothing catches it
BackupFail ==
    /\ pc = "scanned"
    /\ total_patches # 0
    /\ fs[Backup(argv[idx])] = Absent
    /\ pc' = "crashed"
    /\ UNCHANGED <<fs, argv, idx, data, original, total_patches, log, any_patched,
                   ret, runs, pre, init_fs, visited, written, pats>>

\* open(filepath, 'wb'); f.write(data); return True; main sets any_patched
WriteBack ==
    /\ pc = "write"
    /\ fs' = [fs EXCEPT ![argv[idx]] = data]
    /\ written' = written \cup {argv[idx]}
    /\ ret' = "True"
    /\ any_patched' = TRUE
    /\ idx' = idx + 1
    /\ pc' = "loop"
    /\ UNCHANGED <<argv, data, original, total_patches, log,
                   runs, pre, init_fs, visited, pats>>

\* the write raises: nothing catches it
WriteFail ==
    /\ pc = "write"
    /\ pc' = "crashed"
    /\ UNCHANGED <<fs, argv, idx, data, original, total_patches, log, any_patched,
                   ret, runs, pre, init_fs, visited, written, pats>>

\* the script is invoked again with the same arguments
Rerun ==
    /\ pc \in {"done", "crashed", "exit1"}
    /\ runs < MaxRuns
    /\ runs' = runs + 1
    /\ pc' = "start"
    /\ UNCHANGED <<fs, argv, idx, data, original, total_patches, log, any_patched,
                   ret, pre, init_fs, visited, written, pats>>

Next ==
    \/ MainUsage
    \/ MainBegin
    \/ MainEnd
    \/ NotFound
    \/ ReadAndScan
    \/ ReadFail
    \/ ReturnFalse
    \/ SaveBackup
    \/ BackupFail
    \/ WriteBack
    \/ WriteFail
    \/ Rerun

Spec == Init /\ [][Next]_vars

(********************* patch_vortek_socket_path.py *************************)
\* whether old occurs in d at position i (1-based)
OccursAt(d, old, i) ==
    /\ i + Len(old) - 1 <= Len(d)
    /\ SubSeq(d, i, i + Len(old) - 1) = old

\* bytes.count(old) from position i on: non-overlapping, left to right
RECURSIVE CountFrom(_, _, _)
CountFrom(d, old, i) ==
    IF i + Len(old) - 1 > Len(d) THEN 0
    ELSE IF OccursAt(d, old, i) THEN 1 + CountFrom(d, old, i + Len(old))
    ELSE CountFrom(d, old, i + 1)

\* bytes.replace(old, new) from position i on
RECURSIVE ReplaceFrom(_, _, _, _)
ReplaceFrom(d, old, new, i) ==
    IF i > Len(d) THEN <<>>
    ELSE IF OccursAt(d, old, i) THEN new \o ReplaceFrom(d, old, new, i + Len(old))
    ELSE <<d[i]>> \o ReplaceFrom(d, old, new, i + 1)

\* new + b"\x00" * n  (a negative n gives the empty string)
Padded(new, n) == new \o [i \in 1..n |-> 0]

\* patch_binary(data, old, new, name): the data it returns, or exit when it
\* calls sys.exit(1)
patch_binary(d, old, new) ==
    IF CountFrom(d, old, 1) = 0 THEN [exit |-> FALSE, data |-> d]
    ELSE IF Len(new) > Len(old) THEN [exit |-> TRUE, data |-> d]
    ELSE [exit |-> FALSE,
          data |-> ReplaceFrom(d, old, Padded(new, Len(old) - Len(new)), 1)]

\* the inputs: buffers over a three-letter alphabet (0 is the null byte)
RECURSIVE VBuffers(_)
VBuffers(n) == IF n = 0 THEN {<<>>}
               ELSE VBuffers(n - 1) \cup
                    {Append(s, x) : s \in VBuffers(n - 1), x \in {0, 1, 2}}

VOlds == {<<1, 2>>, <<1, 1>>}
VNews == {<<>>, <<3>>, <<3, 3>>, <<3, 3, 3>>}
VPairs == [old : VOlds, new : VNews]

InitV ==
    /\ argv \in {<<>>, <<"a">>, <<"a", "b">>}
    /\ \E c \in VBuffers(MaxVLen) \cup {Absent} :
          fs = [n \in Names |-> IF n = "a" THEN c ELSE Absent]
    /\ pats \in {<<p, q>> : p \in VPairs, q \in VPairs}
    /\ InitCommon

\* len(sys.argv) != 2: usage, sys.exit(1)
VUsage ==
    /\ pc = "start"
    /\ Len(argv) # 1
    /\ pc' = "exit1"
    /\ UNCHANGED <<fs, argv, idx, data, original, total_patches, log, any_patched,
                   ret, runs, pre, init_fs, visited, written, pats>>

\* patch_file: the file is read
VRead ==
    /\ pc = "start"
    /\ Len(argv) = 1
    /\ fs[argv[1]] # Absent
    /\ data' = fs[argv[1]]
    /\ pc' = "v_read"
    /\ UNCHANGED <<fs, argv, idx, original, total_patches, log, any_patched,
                   ret, runs, pre, init_fs, visited, written, pats>>

\* open(filepath, "rb") raises (the file is missing or unreadable)
VReadFail ==
    /\ pc = "start"
    /\ Len(argv) = 1
    /\ pc' = "crashed"
    /\ UNCHANGED <<fs, argv, idx, data, original, total_patches, log, any_patched,
                   ret, runs, pre, init_fs, visited, written, pats>>

\* patch_file: the two patch_binary calls, the second on the first's result
VPatch ==
    /\ pc = "v_read"
    /\ LET r1 == patch_binary(data, pats[1].old, pats[1].new)
           r2 == patch_binary(r1.data, pats[2].old, pats[2].new)
       IN  IF r1.exit \/ r2.exit
           THEN pc' = "exit1" /\ data' = data
           ELSE pc' = "v_write" /\ data' = r2.data
    /\ UNCHANGED <<fs, argv, idx, original, total_patches, log, any_patched,
                   ret, runs, pre, init_fs, visited, written, pats>>

\* patch_file: open(filepath, "wb"); f.write(data)
VWrite ==
    /\ pc = "v_write"
    /\ fs' = [fs EXCEPT ![argv[1]] = data]
    /\ written' = written \cup {argv[1]}
    /\ pc' = "done"
    /\ UNCHANGED <<argv, idx, data, original, total_patches, log, any_patched,
                   ret, runs, pre, init_fs, visited, pats>>

VWriteFail ==
    /\ pc = "v_write"
    /\ pc' = "crashed"
    /\ UNCHANGED <<fs, argv, idx, data, original, total_patches, log, any_patched,
                   ret, runs, pre, init_fs, visited, written, pats>>

NextV ==
    \/ VUsage
    \/ VRead
    \/ VReadFail
    \/ VPatch
    \/ VWrite
    \/ VWriteFail

SpecV == InitV /\ [][NextV]_vars

(***************************************************************************)
(* The two-phase contract the single pass is compared with: find_matches   *)
(* over the unmodified buffer, then apply.                                 *)
(***************************************************************************)
RECURSIVE FindFrom(_, _)
FindFrom(d, offset) ==
    IF offset >= Len(d) - 3 THEN <<>>
    ELSE IF Slice(d, offset, offset + 4) = SVC_0 /\ BackSearch(d, offset, 1) > 0
         THEN LET back == BackSearch(d, offset, 1) IN
              <<[offset |-> offset,
                 prev_off |-> offset - back * 4,
                 back |-> back,
                 nr |-> TargetNr(Slice(d, offset - back * 4, offset - back * 4 + 4))]>>
              \o FindFrom(d, offset + 4)
         ELSE FindFrom(d, offset + 4)

FindMatches(d) == FindFrom(d, 4)

RECURSIVE Apply(_, _)
Apply(d, m) ==
    IF m = <<>> THEN d ELSE Apply(Put4(d, Head(m).offset, MOVN_X0_37), Tail(m))

(***************************************************************************)
(* The instruction shapes as the A64 encoding defines them, written with   *)
(* literal bytes and independently of the scanner's own tests.             *)
(***************************************************************************)
TrapWord == <<1, 0, 0, 212>>                    \* svc #0       d4000001
EnosysWord == <<160, 4, 128, 146>>              \* movn x0, #37 928004a0
Anchor99 == <<104, 12, 128, 210>>               \* mov x8, #99  d2800c68
Anchor293 == <<168, 36, 128, 210>>              \* mov x8, #293 d28024a8
AnchorWords == {Anchor99, Anchor293}

ArchIsB(w) == w[4] \div 4 = 5                   \* bits 31..26 = 000101
ArchIsBL(w) == w[4] \div 4 = 37                 \* bits 31..26 = 100101
ArchIsRetBr(w) == w[4] \div 2 = 107             \* bits 31..25 = 1101011
ArchIsMovzX8(w) ==                              \* 1 10 100101 00 imm16 01000
    w[4] = 210 /\ w[3] \div 32 = 4 /\ w[1] % 32 = 8
ClaimSentinel(w) ==
    ArchIsB(w) \/ ArchIsBL(w) \/ ArchIsRetBr(w)
    \/ (ArchIsMovzX8(w) /\ w \notin AnchorWords)
PlainWord(w) ==
    ~ArchIsB(w) /\ ~ArchIsBL(w) /\ ~ArchIsRetBr(w) /\ ~ArchIsMovzX8(w) /\ w # TrapWord

NWords(d) == Len(d) \div 4
WordAt(d, i) == SubSeq(d, 4 * i + 1, 4 * i + 4)      \* the i-th word, from 0

\* patch_binary has scanned a file and has not returned yet
Scanned == pc \in {"scanned", "write"}
MatchedTraps == {log[i].offset : i \in 1..Len(log)}
SharersOf(a) == {j \in 1..Len(log) : log[j].prev_off = a}

(******************************* C1 ****************************************)
\* C1: a trap with a target anchor behind it inside the 16-instruction
\* window, and a sentinel (b, bl, ret/br, or mov x8 with an immediate that is
\* not blocked) between the two with no target anchor after the sentinel, is
\* not matched and stays svc #0.  Stated for all four sentinel kinds.
C1_NegativeCorrelation ==
    Scanned =>
        \A t \in 1..(NWords(original) - 1) :
            \A s \in 1..(t - 1) :
                \A a \in 0..(s - 1) :
                    ( /\ WordAt(original, t) = TrapWord
                      /\ t - a <= 16
                      /\ WordAt(original, a) \in AnchorWords
                      /\ ClaimSentinel(WordAt(original, s))
                      /\ \A j \in (s + 1)..(t - 1) :
                             WordAt(original, j) \notin AnchorWords )
                    => ( /\ 4 * t \notin MatchedTraps
                         /\ WordAt(data, t) = TrapWord )

(******************************* C2 ****************************************)
\* the buffer is mov x8,#99, k plain words, svc #0 (and at most 3 more bytes)
C2_Shape(d, k) ==
    /\ NWords(d) = k + 2
    /\ WordAt(d, 0) = Anchor99
    /\ WordAt(d, k + 1) = TrapWord
    /\ \A j \in 1..k : PlainWord(WordAt(d, j))

\* exactly one match, pairing that trap with that anchor; the trap rewritten
C2_Result(k) ==
    /\ total_patches = 1
    /\ log = <<[offset |-> 4 * (k + 1), prev_off |-> 0, back |-> k + 1, nr |-> 99]>>
    /\ WordAt(data, k + 1) = EnosysWord

\* C2 as written: for every k in 1..16 the buffer anchor, k fillers, trap
\* gives exactly one match pairing the trap with the anchor.
C2_CorrelationUpTo16 ==
    Scanned => \A k \in 1..16 : C2_Shape(original, k) => C2_Result(k)

\* C2 as amended: the same for every k in 1..15 (the anchor itself takes one
\* of the 16 lookback steps).
C2_CorrelationUpTo15 ==
    Scanned => \A k \in 1..15 : C2_Shape(original, k) => C2_Result(k)

C2_Witness ==
    Scanned /\ C2_Shape(original, 15) /\ C2_Result(15)

(******************************* C3 ****************************************)
\* C3: scanning the output of a scan finds no match and changes no byte, and
\* a later run on a file the patcher has written finds nothing to patch.
C3_Idempotent ==
    /\ Scanned =>
           LET r == Scan(data) IN r.total = 0 /\ r.log = <<>> /\ r.data = data
    /\ (pc = "scanned" /\ argv[idx] \in written) =>
           (total_patches = 0 /\ data = original)

C3_Witness ==
    /\ pc = "scanned"
    /\ runs = 2
    /\ argv[idx] \in written
    /\ \E i, j \in 0..(NWords(original) - 1) :
           WordAt(original, i) = EnosysWord /\ WordAt(original, j) = TrapWord

(******************************* C4 ****************************************)
\* C4: the scanned buffer differs from the input only in the words at the
\* matched trap offsets; each was svc #0 and is movn x0,#37; anchors and
\* trailing bytes are unchanged; the changed words number total_patches.
C4_SelectiveMutation ==
    Scanned =>
        /\ Len(data) = Len(original)
        /\ \A i \in 1..Len(original) :
               data[i] # original[i] => \E m \in MatchedTraps : m < i /\ i <= m + 4
        /\ \A m \in MatchedTraps :
               /\ m % 4 = 0 /\ m + 4 <= Len(original)
               /\ Slice(original, m, m + 4) = TrapWord
               /\ Slice(data, m, m + 4) = EnosysWord
        /\ \A i \in 1..Len(log) :
               /\ Slice(original, log[i].prev_off, log[i].prev_off + 4) \in AnchorWords
               /\ Slice(data, log[i].prev_off, log[i].prev_off + 4)
                      = Slice(original, log[i].prev_off, log[i].prev_off + 4)
        /\ Cardinality({w \in 0..(NWords(original) - 1) :
                            WordAt(data, w) # WordAt(original, w)}) = total_patches
        /\ Cardinality(MatchedTraps) = total_patches

C4_Witness ==
    /\ Scanned
    /\ total_patches >= 2
    /\ Len(original) % 4 # 0
    /\ data # original

(******************************* C5 ****************************************)
\* C5: for a file that starts with no backup, over any runs of the patcher on
\* that file, the backup is either absent or equal to the file's first
\* contents, and the file differs from its first contents only once the
\* backup holds them.
C5_BackupIdempotent ==
    \A p \in ArgPaths :
        ( /\ init_fs[p] # Absent
          /\ init_fs[Backup(p)] = Absent
          /\ Backup(p) \notin Range(argv) )
        => ( /\ fs[Backup(p)] \in {Absent, init_fs[p]}
             /\ fs[p] # init_fs[p] => fs[Backup(p)] = init_fs[p] )

C5_Witness ==
    /\ runs = 2
    /\ pc = "done"
    /\ "a" \in written
    /\ init_fs["a.orig"] = Absent
    /\ "a.orig" \notin Range(argv)
    /\ fs["a"] # init_fs["a"]
    /\ fs["a.orig"] = init_fs["a"]

(******************************* C6 ****************************************)
\* C6: an I/O failure on one file is fatal for that file only: whenever the
\* process has ended, main's loop has reached every file of the batch.
C6_BatchIsolation ==
    pc \in {"done", "crashed"} => visited = 1..Len(argv)

(******************************* C7 ****************************************)
\* C7: when a replacement is longer than the text it replaces, the substring
\* patcher is rejected before any byte is written, whatever the buffer: the
\* write is never reached and the file is unchanged.
C7_SubstringPrecondition ==
    (\E i \in 1..Len(pats) : Len(pats[i].new) > Len(pats[i].old))
        => (pc \notin {"v_write", "done"} /\ fs = init_fs)

(******************************* C8 ****************************************)
\* C8: a scan that finds nothing writes nothing and creates no backup: the
\* file system is what it was when the call began, the call returns False,
\* and the backup and write steps are reached only with a positive count.
C8_NoOpOnZero ==
    /\ pc = "scanned" => fs = pre
    /\ pc = "write" => total_patches > 0
    /\ ret = "False" => (total_patches = 0 /\ fs = pre)
    /\ ret = "True" => total_patches > 0

C8_Witness ==
    /\ ret = "False"
    /\ pc = "loop"
    /\ fs[Backup(argv[idx - 1])] = Absent
    /\ \E i, j \in 0..(NWords(original) - 1) :
           WordAt(original, i) \in AnchorWords /\ WordAt(original, j) = TrapWord

(******************************* C9 ****************************************)
\* C9 as written: no two matched traps of one scan share an anchor.
C9_AnchorUnique ==
    Scanned =>
        \A i, j \in 1..Len(log) : i # j => log[i].prev_off # log[j].prev_off

\* C9 as amended: every matched trap has one anchor, 1 to 16 instructions
\* before it, so an anchor is shared by at most 16 traps.
C9_AnchorSharedByAtMost16 ==
    Scanned =>
        /\ \A i, j \in 1..Len(log) : i # j => log[i].offset # log[j].offset
        /\ \A i \in 1..Len(log) :
               /\ log[i].offset - log[i].prev_off \in {4 * n : n \in 1..16}
               /\ Cardinality(SharersOf(log[i].prev_off)) <= 16

C9_Witness ==
    Scanned /\ \E i \in 1..Len(log) : Cardinality(SharersOf(log[i].prev_off)) = 16

====
